---------------------------- MODULE Spec2Model ----------------------------
(***************************************************************************)
(* A model of the investment-club backend (src/app.py).                    *)
(*                                                                         *)
(* The persistent state is the document store: the collections users,      *)
(* holdings, presentations and the votes sub-collections.  Every HTTP      *)
(* request is a small process living in a slot of `inflight`: it arrives   *)
(* (pc = "recv"), then runs its handler one storage access at a time, and  *)
(* ends by putting its HTTP status into the slot.  Several requests may be *)
(* in flight at once (a WSGI server runs handlers in parallel workers and  *)
(* the store is a remote service), so the steps of different requests      *)
(* interleave.                                                             *)
(***************************************************************************)
EXTENDS Integers, Sequences, FiniteSets, TLC

VARIABLES
    users,          \* collection 'users': id -> [username, role, password_hash]
    nextUser,       \* number of user documents created so far (fresh ids)
    holdings,       \* collection 'holdings': id -> transaction document
    nextTx,         \* number of holdings documents created so far
    presentations,  \* collection 'presentations': id -> presentation document
    nextPres,       \* number of presentation documents created so far
    votes,          \* sub-collections 'votes': <<presentation id, user id>> -> vote_type
    commits,        \* history: <<presentation id, user id>> -> committed vote transactions
    now,            \* the wall clock (datetime.utcnow()), in hours
    inflight,       \* slot -> the request being handled there, or Idle
    status,         \* <<HTTP status, error message>> of the latest response
    all_transactions, \* the argument of the running call of aggregate_portfolio
    aggregate       \* the locals of that call: [pc, sorted_transactions, i, portfolio, returned]

vars == <<users, nextUser, holdings, nextTx, presentations, nextPres, votes,
          commits, now, inflight, status, all_transactions, aggregate>>

---------------------------------------------------------------------------
(* Bounds of the model *)

MaxInflight == 2
MaxSequential == 1
MaxTx == 2
MaxUsers == 3
MaxPres == 1
MaxTime == 72
MaxLen == 4

Slots == 1..MaxInflight

---------------------------------------------------------------------------
(* Generic helpers *)

Range(f) == {f[x] : x \in DOMAIN f}

\* f with key k bound to v (Firestore set / add)
Put(f, k, v) == [x \in DOMAIN f \cup {k} |-> IF x = k THEN v ELSE f[x]]

\* f without key k (Firestore delete)
Drop(f, k) == [x \in DOMAIN f \ {k} |-> f[x]]

EmptyMap == [x \in {} |-> 0]

RECURSIVE SumOver(_, _)
\* sum of g[x] over x in S (the += loops of the handlers)
SumOver(S, g) ==
    IF S = {} THEN 0
    ELSE LET x == CHOOSE y \in S : TRUE
         IN g[x] + SumOver(S \ {x}, g)

\* aggregate_portfolio is not running
NotCalled == [pc |-> "none"]

---------------------------------------------------------------------------
(* Sessions and current_user *)

Roles == {"guest", "member", "admin"}

\* bcrypt.generate_password_hash: a one-way image of the password
generate_password_hash(p) == <<"bcrypt", p>>

\* bcrypt.check_password_hash
check_password_hash(h, p) == h = generate_password_hash(p)

\* A session cookie names at most one user id, of a user that registered
\* at some time: {} is no session.
Sessions == {{}} \cup {{u} : u \in 1..nextUser}

AnonymousUser == [is_authenticated |-> FALSE]

\* load_user / User.get: the user document of the session, read when the
\* request starts; a session whose user document is gone is anonymous.
load_user(sess) ==
    IF sess # {} /\ sess \subseteq DOMAIN users
    THEN LET u == CHOOSE x \in sess : TRUE
         IN [is_authenticated |-> TRUE, id |-> u,
             username |-> users[u].username,
             role |-> users[u].role,
             password_hash |-> users[u].password_hash]
    ELSE AnonymousUser

\* A slot that holds no request
Idle == [op |-> "none", pc |-> "idle"]

\* The handler in slot s returns jsonify(...), code: the HTTP status and the
\* "error" of the body ("" when the body carries none)
Respond(s, code, error) ==
    /\ inflight' = [inflight EXCEPT ![s] = Idle]
    /\ status' = <<code, error>>

\* The handler in slot s goes on, with the locals it still needs
Continue(s, frame) ==
    /\ inflight' = [inflight EXCEPT ![s] = frame]
    /\ UNCHANGED status

\* A request arrives in the free slot s
Receive(s, req) ==
    /\ inflight[s].pc = "idle"
    /\ inflight' = [inflight EXCEPT ![s] = req]
    /\ UNCHANGED status

\* @login_required with login_manager.login_view set: an anonymous caller is
\* redirected to the login page.
Unauthorized(s) == Respond(s, 302, "login")

---------------------------------------------------------------------------
(* Holdings: POST /api/transaction and DELETE /api/transaction/<id> *)

RequestSymbols == {"AAPL", "aapl", "MSFT"}

\* str.upper() on the ticker symbols the model uses
upper(sym) == IF sym = "aapl" THEN "AAPL" ELSE sym

\* The dates and the quantities the requests carry
Dates == {1}

Quantities == {1, 2}

\* The JSON bodies of add-transaction requests: every combination of symbol,
\* isReal, type, quantity and date; the dollar value is quantity x a price
\* that depends on the date.
TxRequests ==
    {[symbol |-> sym, isReal |-> real, transactionType |-> ty,
      quantity |-> q, dollarValue |-> q * (d + 2), date |-> d] :
        sym \in RequestSymbols, real \in BOOLEAN, ty \in {"buy", "sell"},
        q \in Quantities, d \in Dates}

\* db.collection('holdings').where('symbol','==',sym).where('isReal','==',True)
RealHoldingsOf(sym) ==
    {t \in DOMAIN holdings : holdings[t].symbol = sym /\ holdings[t].isReal}

\* The loop of add_transaction: buys - sells over the documents of the query
current_quantity_wrong_filter(sym) ==
    LET docs == {t \in DOMAIN holdings : holdings[t].isReal}
        qty  == [t \in docs |-> holdings[t].quantity]
    IN SumOver({t \in docs : holdings[t].transactionType = "buy"}, qty)
       - SumOver({t \in docs : holdings[t].transactionType # "buy"}, qty)

current_quantity(sym) ==
    LET docs == RealHoldingsOf(sym)
        qty  == [t \in docs |-> holdings[t].quantity]
    IN SumOver({t \in docs : holdings[t].transactionType = "buy"}, qty)
       - SumOver({t \in docs : holdings[t].transactionType # "buy"}, qty)

\* Requests of the kind op now in flight
InFlight(op) == {s \in Slots : inflight[s].op = op}

UNCHANGED_users == UNCHANGED <<users, nextUser>>
UNCHANGED_holdings == UNCHANGED <<holdings, nextTx>>
UNCHANGED_presentations == UNCHANGED <<presentations, nextPres, votes, commits, now>>
UNCHANGED_agg == UNCHANGED <<all_transactions, aggregate>>

\* A request arrives: POST /api/transaction with a JSON body
add_transaction_recv(s) ==
    /\ nextTx + Cardinality(InFlight("add_transaction")) < MaxTx
    /\ \E sess \in Sessions, data \in TxRequests :
          Receive(s, [op |-> "add_transaction", pc |-> "recv", sess |-> sess,
                      data |-> data])
    /\ UNCHANGED_users /\ UNCHANGED_holdings /\ UNCHANGED_presentations /\ UNCHANGED_agg

\* is_real and current_user.role != 'admin'
real_needs_admin_dropped(current_user, data) == FALSE

real_needs_admin(current_user, data) ==
    data.isReal /\ current_user.role # "admin"

\* is_real_transaction and current_user.role != 'admin'
real_delete_needs_admin(current_user, transaction_data) ==
    transaction_data.isReal /\ current_user.role # "admin"

\* sell_quantity > current_quantity
sell_exceeds_off_by_one(data) == data.quantity > current_quantity(data.symbol) + 1

sell_exceeds(data) == data.quantity > current_quantity(data.symbol)

\* @login_required, the isReal / admin check and, for a sell, the query on
\* the holdings and the comparison.  The user document and the holdings are
\* read in one step: the handlers that write the one do not write the other.
add_transaction_check(s) ==
    /\ inflight[s].op = "add_transaction" /\ inflight[s].pc = "recv"
    /\ LET current_user == load_user(inflight[s].sess)
           data == inflight[s].data
       IN IF ~current_user.is_authenticated THEN Unauthorized(s)
          ELSE IF real_needs_admin(current_user, data)
          THEN Respond(s, 403, "Forbidden: Only admins can add real transactions.")
          ELSE IF data.transactionType = "sell" /\ sell_exceeds(data)
          THEN Respond(s, 400, "Cannot sell")
          ELSE Continue(s, [op |-> "add_transaction", pc |-> "add", data |-> data])
    /\ UNCHANGED_users /\ UNCHANGED_holdings /\ UNCHANGED_presentations /\ UNCHANGED_agg

\* new_transaction_data: the document add_transaction stores
new_transaction_data(data) ==
    [symbol |-> upper(data.symbol), isReal |-> data.isReal,
     quantity |-> data.quantity, dollarValue |-> data.dollarValue,
     date |-> data.date, transactionType |-> data.transactionType]

\* The market-data lookup, then db.collection('holdings').add(new_transaction_data)
add_transaction_add(s) ==
    /\ inflight[s].op = "add_transaction" /\ inflight[s].pc = "add"
    /\ nextTx' = nextTx + 1
    /\ holdings' = Put(holdings, nextTx + 1, new_transaction_data(inflight[s].data))
    /\ Respond(s, 201, "")
    /\ UNCHANGED_users /\ UNCHANGED_presentations /\ UNCHANGED_agg

\* A request arrives: DELETE /api/transaction/<transaction_id>
delete_transaction_recv(s) ==
    /\ \E sess \in Sessions, transaction_id \in 1..MaxTx :
          Receive(s, [op |-> "delete_transaction", pc |-> "recv", sess |-> sess,
                      transaction_id |-> transaction_id])
    /\ UNCHANGED_users /\ UNCHANGED_holdings /\ UNCHANGED_presentations /\ UNCHANGED_agg

\* transaction_ref.get() (404 when the document is missing), then the login
\* and role checks; current_user is loaded at its first use, after the get.
delete_transaction_check(s) ==
    /\ inflight[s].op = "delete_transaction" /\ inflight[s].pc = "recv"
    /\ LET id == inflight[s].transaction_id
           current_user == load_user(inflight[s].sess)
       IN IF id \notin DOMAIN holdings THEN Respond(s, 404, "Transaction not found")
          ELSE IF ~current_user.is_authenticated
          THEN Respond(s, 403, "Forbidden: You must be logged in to delete items.")
          ELSE IF real_delete_needs_admin(current_user, holdings[id])
          THEN Respond(s, 403, "Forbidden: Only admins can delete real transactions.")
          ELSE Continue(s, [op |-> "delete_transaction", pc |-> "delete",
                            transaction_id |-> id])
    /\ UNCHANGED_users /\ UNCHANGED_holdings /\ UNCHANGED_presentations /\ UNCHANGED_agg

\* transaction_ref.delete()
delete_transaction_delete(s) ==
    /\ inflight[s].op = "delete_transaction" /\ inflight[s].pc = "delete"
    /\ holdings' = Drop(holdings, inflight[s].transaction_id)
    /\ Respond(s, 200, "")
    /\ UNCHANGED nextTx
    /\ UNCHANGED_users /\ UNCHANGED_presentations /\ UNCHANGED_agg

\* The users the store holds when the server starts: accounts are promoted
\* to member or admin outside the handlers of one run.
SeedUsers ==
    (1 :> [username |-> "alice", role |-> "admin",
           password_hash |-> generate_password_hash("pw1")])
    @@ (2 :> [username |-> "bob", role |-> "member",
              password_hash |-> generate_password_hash("pw1")])

InitStore ==
    /\ users = SeedUsers /\ nextUser = Cardinality(DOMAIN SeedUsers)
    /\ holdings = EmptyMap /\ nextTx = 0
    /\ presentations = EmptyMap /\ nextPres = 0
    /\ votes = EmptyMap /\ commits = EmptyMap
    /\ now = 0
    /\ inflight = [s \in Slots |-> Idle] /\ status = <<0, "">>
    /\ all_transactions = <<>> /\ aggregate = NotCalled

\* The holdings endpoints, their requests handled one after the other (at
\* most MaxSequential at a time).
NextTx ==
    \E s \in 1..MaxSequential :
        \/ add_transaction_recv(s)
        \/ add_transaction_check(s)
        \/ add_transaction_add(s)
        \/ delete_transaction_recv(s)
        \/ delete_transaction_check(s)
        \/ delete_transaction_delete(s)

SpecTx == InitStore /\ [][NextTx]_vars

---------------------------------------------------------------------------
(* Roles: POST /api/users/<user_id>/role *)

\* The roles a request may ask for: the three roles and one that is none
RequestedRoles == Roles \cup {"owner"}

\* A request arrives: POST /api/users/<user_id>/role with a JSON body
update_user_role_recv(s) ==
    /\ \E sess \in Sessions, user_id \in 1..MaxUsers, new_role \in RequestedRoles :
          Receive(s, [op |-> "update_user_role", pc |-> "recv", sess |-> sess,
                      user_id |-> user_id, new_role |-> new_role])
    /\ UNCHANGED_users /\ UNCHANGED_holdings /\ UNCHANGED_presentations /\ UNCHANGED_agg

\* current_user.role != 'admin'
not_admin_unchecked(current_user) == FALSE

not_admin(current_user) == current_user.role # "admin"

\* user_id == current_user.id and new_role != 'admin'
demotes_self_unchecked(current_user, user_id, new_role) == FALSE

demotes_self(current_user, user_id, new_role) ==
    user_id = current_user.id /\ new_role # "admin"

\* The checks of update_user_role, in the handler's order: login, admin,
\* user found, role valid, no self-demotion
update_user_role_check(s) ==
    /\ inflight[s].op = "update_user_role" /\ inflight[s].pc = "recv"
    /\ LET current_user == load_user(inflight[s].sess)
           user_id == inflight[s].user_id
           new_role == inflight[s].new_role
       IN IF ~current_user.is_authenticated THEN Unauthorized(s)
          ELSE IF not_admin(current_user) THEN Respond(s, 403, "Forbidden")
          ELSE IF user_id \notin DOMAIN users THEN Respond(s, 404, "User not found")
          ELSE IF new_role \notin Roles THEN Respond(s, 400, "Invalid role specified")
          ELSE IF demotes_self(current_user, user_id, new_role)
          THEN Respond(s, 400, "Admins cannot demote themselves.")
          ELSE Continue(s, [op |-> "update_user_role", pc |-> "update",
                            user_id |-> user_id, new_role |-> new_role])
    /\ UNCHANGED_users /\ UNCHANGED_holdings /\ UNCHANGED_presentations /\ UNCHANGED_agg

\* user_ref.update(fields): the update of a document that is gone raises
\* NotFound, which no handler catches (500)
UpdateUser(s, user_id, fields) ==
    IF user_id \in DOMAIN users
    THEN /\ users' = [users EXCEPT ![user_id] =
                [f \in DOMAIN users[user_id] |->
                    IF f \in DOMAIN fields THEN fields[f] ELSE users[user_id][f]]]
         /\ Respond(s, 200, "")
    ELSE /\ UNCHANGED users
         /\ Respond(s, 500, "NotFound")

\* user_ref.update({'role': new_role})
update_user_role_update(s) ==
    /\ inflight[s].op = "update_user_role" /\ inflight[s].pc = "update"
    /\ UpdateUser(s, inflight[s].user_id, [role |-> inflight[s].new_role])
    /\ UNCHANGED nextUser
    /\ UNCHANGED_holdings /\ UNCHANGED_presentations /\ UNCHANGED_agg

\* The users of the role and presentation endpoints: one of each role
SeedRoles ==
    SeedUsers @@ (3 :> [username |-> "carol", role |-> "guest",
                        password_hash |-> generate_password_hash("pw1")])

InitRoles ==
    /\ users = SeedRoles /\ nextUser = Cardinality(DOMAIN SeedRoles)
    /\ holdings = EmptyMap /\ nextTx = 0
    /\ presentations = EmptyMap /\ nextPres = 0
    /\ votes = EmptyMap /\ commits = EmptyMap
    /\ now = 0
    /\ inflight = [s \in Slots |-> Idle] /\ status = <<0, "">>
    /\ all_transactions = <<>> /\ aggregate = NotCalled

\* The role endpoint, its requests handled one after the other (at most
\* MaxSequential at a time).
NextRoles ==
    \E s \in 1..MaxSequential :
        \/ update_user_role_recv(s)
        \/ update_user_role_check(s)
        \/ update_user_role_update(s)

SpecRoles == InitRoles /\ [][NextRoles]_vars

---------------------------------------------------------------------------
(* Usernames: POST /register, POST /api/users/<user_id>/username and
   POST /api/account/update *)

\* The usernames the requests ask for
Names == {"alice", "bob"}

\* db.collection('users').where('username', '==', username): the ids found
UsersNamed(username) == {u \in DOMAIN users : users[u].username = username}

\* A request arrives: POST /register with a username and a password
register_recv(s) ==
    /\ nextUser + Cardinality(InFlight("register")) < MaxUsers
    /\ \E sess \in Sessions, username \in Names :
          Receive(s, [op |-> "register", pc |-> "recv", sess |-> sess,
                      username |-> username, password |-> "pw1"])
    /\ UNCHANGED_users /\ UNCHANGED_holdings /\ UNCHANGED_presentations /\ UNCHANGED_agg

\* A logged-in caller is sent to the index page; then the query for the
\* username: next(existing_users, None)
register_check(s) ==
    /\ inflight[s].op = "register" /\ inflight[s].pc = "recv"
    /\ LET current_user == load_user(inflight[s].sess)
       IN IF current_user.is_authenticated THEN Respond(s, 302, "index")
          ELSE IF UsersNamed(inflight[s].username) # {}
          THEN Respond(s, 400, "Username is already taken.")
          ELSE Continue(s, [op |-> "register", pc |-> "add",
                            username |-> inflight[s].username,
                            password |-> inflight[s].password])
    /\ UNCHANGED_users /\ UNCHANGED_holdings /\ UNCHANGED_presentations /\ UNCHANGED_agg

\* db.collection('users').add(user_data): the new user is a guest
register_add(s) ==
    /\ inflight[s].op = "register" /\ inflight[s].pc = "add"
    /\ nextUser' = nextUser + 1
    /\ users' = Put(users, nextUser + 1,
                    [username |-> inflight[s].username, role |-> "guest",
                     password_hash |-> generate_password_hash(inflight[s].password)])
    /\ Respond(s, 200, "")
    /\ UNCHANGED_holdings /\ UNCHANGED_presentations /\ UNCHANGED_agg

\* A request arrives: POST /api/users/<user_id>/username
update_user_username_recv(s) ==
    /\ \E sess \in Sessions, user_id \in 1..MaxUsers, username \in Names :
          Receive(s, [op |-> "update_user_username", pc |-> "recv", sess |-> sess,
                      user_id |-> user_id, username |-> username])
    /\ UNCHANGED_users /\ UNCHANGED_holdings /\ UNCHANGED_presentations /\ UNCHANGED_agg

\* The checks of update_user_username: login, admin, user found, and the
\* query .where('username', '==', new_username).limit(1), which yields any
\* one of the users of that name
update_user_username_check(s) ==
    /\ inflight[s].op = "update_user_username" /\ inflight[s].pc = "recv"
    /\ LET current_user == load_user(inflight[s].sess)
           user_id == inflight[s].user_id
           new_username == inflight[s].username
       IN IF ~current_user.is_authenticated THEN Unauthorized(s)
          ELSE IF not_admin(current_user) THEN Respond(s, 403, "Forbidden")
          ELSE IF user_id \notin DOMAIN users THEN Respond(s, 404, "User not found")
          ELSE \/ /\ \E existing_user_doc \in UsersNamed(new_username) :
                        existing_user_doc # user_id
                  /\ Respond(s, 409, "Username is already taken.")
               \/ /\ \/ UsersNamed(new_username) = {}
                     \/ user_id \in UsersNamed(new_username)
                  /\ Continue(s, [op |-> "update_user_username", pc |-> "update",
                                  user_id |-> user_id, username |-> new_username])
    /\ UNCHANGED_users /\ UNCHANGED_holdings /\ UNCHANGED_presentations /\ UNCHANGED_agg

\* user_ref.update({'username': new_username})
update_user_username_update(s) ==
    /\ inflight[s].op = "update_user_username" /\ inflight[s].pc = "update"
    /\ UpdateUser(s, inflight[s].user_id, [username |-> inflight[s].username])
    /\ UNCHANGED nextUser
    /\ UNCHANGED_holdings /\ UNCHANGED_presentations /\ UNCHANGED_agg

\* A request arrives: POST /api/account/update; "" stands for a field that
\* is absent
update_account_recv(s) ==
    /\ \E sess \in Sessions, username \in Names \cup {""}, new_password \in {"", "pw2"} :
          Receive(s, [op |-> "update_account", pc |-> "recv", sess |-> sess,
                      username |-> username, current_password |-> "pw1",
                      new_password |-> new_password])
    /\ UNCHANGED_users /\ UNCHANGED_holdings /\ UNCHANGED_presentations /\ UNCHANGED_agg

\* update_data after the username and password branches of update_account
update_data(new_username, new_password) ==
    LET name == IF new_username # "" THEN [username |-> new_username] ELSE EmptyMap
        pass == IF new_password # ""
                THEN [password_hash |-> generate_password_hash(new_password)]
                ELSE EmptyMap
    IN name @@ pass

\* The checks of update_account: login, the query for the new username,
\* the current password
update_account_check(s) ==
    /\ inflight[s].op = "update_account" /\ inflight[s].pc = "recv"
    /\ LET current_user == load_user(inflight[s].sess)
           new_password == inflight[s].new_password
       IN IF ~current_user.is_authenticated THEN Unauthorized(s)
          ELSE LET new_username ==
                       IF inflight[s].username # current_user.username
                       THEN inflight[s].username ELSE ""
               IN IF new_username # "" /\ UsersNamed(new_username) # {}
                  THEN Respond(s, 409, "Username is already taken.")
                  ELSE IF /\ new_password # ""
                          /\ ~check_password_hash(current_user.password_hash,
                                                  inflight[s].current_password)
                  THEN Respond(s, 401, "Current password is incorrect.")
                  ELSE IF new_username = "" /\ new_password = ""
                  THEN Respond(s, 400, "No changes requested.")
                  ELSE Continue(s, [op |-> "update_account", pc |-> "update",
                                    user_id |-> current_user.id,
                                    update_data |-> update_data(new_username, new_password)])
    /\ UNCHANGED_users /\ UNCHANGED_holdings /\ UNCHANGED_presentations /\ UNCHANGED_agg

\* user_ref.update(update_data)
update_account_update(s) ==
    /\ inflight[s].op = "update_account" /\ inflight[s].pc = "update"
    /\ UpdateUser(s, inflight[s].user_id, inflight[s].update_data)
    /\ UNCHANGED nextUser
    /\ UNCHANGED_holdings /\ UNCHANGED_presentations /\ UNCHANGED_agg

\* The username endpoints, with requests in flight at the same time.
NextNames ==
    \E s \in Slots :
        \/ register_recv(s)
        \/ register_check(s)
        \/ register_add(s)
        \/ update_user_username_recv(s)
        \/ update_user_username_check(s)
        \/ update_user_username_update(s)
        \/ update_account_recv(s)
        \/ update_account_check(s)
        \/ update_account_update(s)

\* The username endpoints start with the admin account alone.
InitNames ==
    /\ users = [u \in {1} |-> SeedUsers[u]] /\ nextUser = 1
    /\ holdings = EmptyMap /\ nextTx = 0
    /\ presentations = EmptyMap /\ nextPres = 0
    /\ votes = EmptyMap /\ commits = EmptyMap
    /\ now = 0
    /\ inflight = [s \in Slots |-> Idle] /\ status = <<0, "">>
    /\ all_transactions = <<>> /\ aggregate = NotCalled

SpecNames == InitNames /\ [][NextNames]_vars

---------------------------------------------------------------------------
(* Presentations: POST /api/presentations and POST /api/presentations/<id>/vote *)

\* timedelta(hours=48)
VotingHours == 48

\* The clock moves on by half a voting window at a time.
TickSteps == {VotingHours \div 2}

Tick ==
    /\ \E d \in TickSteps : now + d <= MaxTime /\ now' = now + d
    /\ UNCHANGED <<presentations, nextPres, votes, commits, inflight, status>>
    /\ UNCHANGED_users /\ UNCHANGED_holdings /\ UNCHANGED_agg

UNCHANGED_votes == UNCHANGED <<votes, commits>>

\* A request arrives: POST /api/presentations (with all required fields)
add_presentation_recv(s) ==
    /\ nextPres + Cardinality(InFlight("add_presentation")) < MaxPres
    /\ \E sess \in Sessions :
          Receive(s, [op |-> "add_presentation", pc |-> "recv", sess |-> sess])
    /\ UNCHANGED <<presentations, nextPres, now>> /\ UNCHANGED_votes
    /\ UNCHANGED_users /\ UNCHANGED_holdings /\ UNCHANGED_agg

\* voting_ends = now + timedelta(hours=48)
voting_ends_short(t) == t + VotingHours \div 2

voting_ends(t) == t + VotingHours

\* current_user.role == 'guest'
is_guest_unless_member(current_user) == current_user.role # "member"

is_guest(current_user) == current_user.role = "guest"

\* new_presentation_data
new_presentation_data(t) ==
    [created_at |-> t, voting_ends_at |-> voting_ends(t),
     votes_for |-> 0, votes_against |-> 0]

\* @login_required, the guest check, then db.collection('presentations').add
add_presentation_add(s) ==
    /\ inflight[s].op = "add_presentation" /\ inflight[s].pc = "recv"
    /\ LET current_user == load_user(inflight[s].sess)
       IN IF ~current_user.is_authenticated
          THEN Unauthorized(s) /\ UNCHANGED <<presentations, nextPres>>
          ELSE IF is_guest(current_user)
          THEN /\ Respond(s, 403, "Guests cannot submit presentations.")
               /\ UNCHANGED <<presentations, nextPres>>
          ELSE /\ nextPres' = nextPres + 1
               /\ presentations' =
                      Put(presentations, nextPres + 1, new_presentation_data(now))
               /\ Respond(s, 201, "")
    /\ UNCHANGED now /\ UNCHANGED_votes
    /\ UNCHANGED_users /\ UNCHANGED_holdings /\ UNCHANGED_agg

VoteTypes == {"for", "against", "abstain"}

\* A request arrives: POST /api/presentations/<presentation_id>/vote
vote_on_presentation_recv(s) ==
    /\ \E sess \in Sessions, presentation_id \in 1..MaxPres, vote_type \in VoteTypes :
          Receive(s, [op |-> "vote_on_presentation", pc |-> "recv", sess |-> sess,
                      presentation_id |-> presentation_id, vote_type |-> vote_type])
    /\ UNCHANGED <<presentations, nextPres, now>> /\ UNCHANGED_votes
    /\ UNCHANGED_users /\ UNCHANGED_holdings /\ UNCHANGED_agg

\* not voting_ends_at or datetime.utcnow() > voting_ends_at
voting_closed_never(presentation_data) == FALSE

voting_closed(presentation_data) == now > presentation_data.voting_ends_at

\* vote_ref.get().exists
vote_exists_ignored(presentation_id, user_id) == FALSE

vote_exists(presentation_id, user_id) ==
    <<presentation_id, user_id>> \in DOMAIN votes

\* The checks of vote_on_presentation, in the handler's order: login, guest,
\* presentation found, voting still open, no vote yet, vote type valid.  The
\* fields read from the presentation never change once it is stored.
vote_on_presentation_check(s) ==
    /\ inflight[s].op = "vote_on_presentation" /\ inflight[s].pc = "recv"
    /\ LET current_user == load_user(inflight[s].sess)
           presentation_id == inflight[s].presentation_id
           vote_type == inflight[s].vote_type
       IN IF ~current_user.is_authenticated THEN Unauthorized(s)
          ELSE IF is_guest(current_user) THEN Respond(s, 403, "Guests cannot vote.")
          ELSE IF presentation_id \notin DOMAIN presentations
          THEN Respond(s, 404, "Presentation not found")
          ELSE IF voting_closed(presentations[presentation_id])
          THEN Respond(s, 403, "Voting for this presentation has closed.")
          ELSE IF vote_exists(presentation_id, current_user.id)
          THEN Respond(s, 409, "You have already voted on this presentation.")
          ELSE IF vote_type \notin {"for", "against"}
          THEN Respond(s, 400, "Invalid vote type")
          ELSE Continue(s, [op |-> "vote_on_presentation", pc |-> "transaction",
                            presentation_id |-> presentation_id,
                            user_id |-> current_user.id, vote_type |-> vote_type])
    /\ UNCHANGED <<presentations, nextPres, now>> /\ UNCHANGED_votes
    /\ UNCHANGED_users /\ UNCHANGED_holdings /\ UNCHANGED_agg

\* update_in_transaction: read the presentation, set the vote document and
\* add one to the counter of the vote type, all in one Firestore transaction
update_in_transaction(s) ==
    /\ inflight[s].op = "vote_on_presentation" /\ inflight[s].pc = "transaction"
    /\ LET pres_ref == inflight[s].presentation_id
           vt_ref == <<pres_ref, inflight[s].user_id>>
           vote_type == inflight[s].vote_type
           pres_snapshot == presentations[pres_ref]
       IN /\ votes' = Put(votes, vt_ref, vote_type)
          /\ commits' = Put(commits, vt_ref,
                            IF vt_ref \in DOMAIN commits THEN commits[vt_ref] + 1 ELSE 1)
          /\ presentations' =
                IF vote_type = "for"
                THEN [presentations EXCEPT ![pres_ref].votes_for =
                         pres_snapshot.votes_for + 1]
                ELSE [presentations EXCEPT ![pres_ref].votes_against =
                         pres_snapshot.votes_against + 1]
    /\ Respond(s, 200, "")
    /\ UNCHANGED <<nextPres, now>>
    /\ UNCHANGED_users /\ UNCHANGED_holdings /\ UNCHANGED_agg

\* The presentation endpoints, with requests in flight at the same time,
\* and the clock.
NextVote ==
    \/ Tick
    \/ \E s \in Slots :
          \/ add_presentation_recv(s)
          \/ add_presentation_add(s)
          \/ vote_on_presentation_recv(s)
          \/ vote_on_presentation_check(s)
          \/ update_in_transaction(s)

SpecVote == InitRoles /\ [][NextVote]_vars

\* The same endpoints served by a single worker: each request is handled to
\* its end before the next one arrives.
NextVoteSeq ==
    \/ Tick
    \/ \E s \in {1} :
          \/ add_presentation_recv(s)
          \/ add_presentation_add(s)
          \/ vote_on_presentation_recv(s)
          \/ vote_on_presentation_check(s)
          \/ update_in_transaction(s)

SpecVoteSeq == InitRoles /\ [][NextVoteSeq]_vars

---------------------------------------------------------------------------
(* The list of presentations: GET /api/presentations *)

\* is_voting_open of get_presentations: the deadline is looked up under the
\* key 'votingEndsAt'; without that key voting counts as closed
is_voting_open(p_data) ==
    IF "votingEndsAt" \in DOMAIN p_data THEN p_data.votingEndsAt > now ELSE FALSE

\* the entry built for one presentation document
processed_presentation(current_user, id) ==
    LET p_data == presentations[id] @@ [id |-> id]
        voted == vote_exists(id, current_user.id)
        entry == [isVotingOpen |-> is_voting_open(p_data),
                  hasVoted |-> voted,
                  voteDirection |-> IF voted THEN votes[<<id, current_user.id>>]
                                    ELSE "None"]
                 @@ p_data
    IN IF current_user.role # "admin" /\ is_voting_open(p_data)
       THEN [k \in DOMAIN entry \ {"votes_for", "votes_against"} |-> entry[k]]
       ELSE entry

RECURSIVE processed_presentations(_, _)
\* the entries in the order of the sort: created_at, latest first
processed_presentations(current_user, ids) ==
    IF ids = {} THEN <<>>
    ELSE LET id == CHOOSE i \in ids : \A j \in ids :
                      \/ presentations[i].created_at > presentations[j].created_at
                      \/ presentations[i].created_at = presentations[j].created_at /\ i <= j
         IN <<processed_presentation(current_user, id)>>
            \o processed_presentations(current_user, ids \ {id})

\* A request arrives: GET /api/presentations
get_presentations_recv(s) ==
    /\ \E sess \in Sessions : Receive(s, [op |-> "get_presentations", pc |-> "recv",
                                          sess |-> sess])
    /\ UNCHANGED <<presentations, nextPres, now>> /\ UNCHANGED_votes
    /\ UNCHANGED_users /\ UNCHANGED_holdings /\ UNCHANGED_agg

\* @login_required, then the list is built and returned (as the third
\* component of the response)
get_presentations(s) ==
    /\ inflight[s].op = "get_presentations" /\ inflight[s].pc = "recv"
    /\ LET current_user == load_user(inflight[s].sess)
       IN IF ~current_user.is_authenticated THEN Unauthorized(s)
          ELSE /\ inflight' = [inflight EXCEPT ![s] = Idle]
               /\ status' = <<200, "",
                              processed_presentations(current_user, DOMAIN presentations)>>
    /\ UNCHANGED <<presentations, nextPres, now>> /\ UNCHANGED_votes
    /\ UNCHANGED_users /\ UNCHANGED_holdings /\ UNCHANGED_agg

\* The presentation endpoints with the list, served by a single worker, and
\* the clock
NextPres ==
    \/ Tick
    \/ \E s \in {1} :
          \/ add_presentation_recv(s)
          \/ add_presentation_add(s)
          \/ vote_on_presentation_recv(s)
          \/ vote_on_presentation_check(s)
          \/ update_in_transaction(s)
          \/ get_presentations_recv(s)
          \/ get_presentations(s)

SpecPres == InitRoles /\ [][NextPres]_vars

---------------------------------------------------------------------------
(* Deleting a user: DELETE /api/users/<user_id> *)

\* A request arrives: DELETE /api/users/<user_id>
delete_user_recv(s) ==
    /\ \E sess \in Sessions, user_id \in 1..MaxUsers :
          Receive(s, [op |-> "delete_user", pc |-> "recv", sess |-> sess,
                      user_id |-> user_id])
    /\ UNCHANGED_users /\ UNCHANGED_holdings /\ UNCHANGED_presentations /\ UNCHANGED_agg

\* user_id == current_user.id
deletes_self(current_user, user_id) == user_id = current_user.id

\* The checks of delete_user, in the handler's order: login, admin, user
\* found, not the caller's own account
delete_user_check(s) ==
    /\ inflight[s].op = "delete_user" /\ inflight[s].pc = "recv"
    /\ LET current_user == load_user(inflight[s].sess)
           user_id == inflight[s].user_id
       IN IF ~current_user.is_authenticated THEN Unauthorized(s)
          ELSE IF not_admin(current_user) THEN Respond(s, 403, "Forbidden")
          ELSE IF user_id \notin DOMAIN users THEN Respond(s, 404, "User not found")
          ELSE IF deletes_self(current_user, user_id)
          THEN Respond(s, 400, "You cannot delete your own account.")
          ELSE Continue(s, [op |-> "delete_user", pc |-> "delete", user_id |-> user_id])
    /\ UNCHANGED_users /\ UNCHANGED_holdings /\ UNCHANGED_presentations /\ UNCHANGED_agg

\* the vote documents left once the loop over the presentations has deleted
\* the user's: the presentation documents themselves are not written
votes_without(user_id) ==
    [vt_ref \in {r \in DOMAIN votes : r[2] # user_id} |-> votes[vt_ref]]

\* the try block: delete the user's vote document under every presentation,
\* then the user document (deleting a document that is gone is no error)
delete_user_delete(s) ==
    /\ inflight[s].op = "delete_user" /\ inflight[s].pc = "delete"
    /\ votes' = votes_without(inflight[s].user_id)
    /\ users' = Drop(users, inflight[s].user_id)
    /\ Respond(s, 200, "")
    /\ UNCHANGED <<nextUser, presentations, nextPres, commits, now>>
    /\ UNCHANGED_holdings /\ UNCHANGED_agg

\* The presentation endpoints and the deletion of users, served by a single
\* worker, and the clock
NextCount ==
    \/ Tick
    \/ \E s \in {1} :
          \/ add_presentation_recv(s)
          \/ add_presentation_add(s)
          \/ vote_on_presentation_recv(s)
          \/ vote_on_presentation_check(s)
          \/ update_in_transaction(s)
          \/ delete_user_recv(s)
          \/ delete_user_check(s)
          \/ delete_user_delete(s)

SpecCount == InitRoles /\ [][NextCount]_vars

\* The role endpoint and the deletion of users, with requests in flight at
\* the same time
NextAdmins ==
    \E s \in Slots :
        \/ update_user_role_recv(s)
        \/ update_user_role_check(s)
        \/ update_user_role_update(s)
        \/ delete_user_recv(s)
        \/ delete_user_check(s)
        \/ delete_user_delete(s)

SpecAdmins == InitRoles /\ [][NextAdmins]_vars

---------------------------------------------------------------------------
(* Storage failures: a call on db raises while a handler runs *)

\* An exception leaves the view function: Flask answers with its own page
InternalServerErrorPage == "<!doctype html><title>500 Internal Server Error</title>"

Escapes(s) == Respond(s, 500, InternalServerErrorPage)

\* A request arrives: GET /api/portfolio
get_transactions_recv(s) ==
    /\ \E sess \in Sessions : Receive(s, [op |-> "get_transactions", pc |-> "recv",
                                          sess |-> sess])
    /\ UNCHANGED_users /\ UNCHANGED_holdings /\ UNCHANGED_presentations /\ UNCHANGED_agg

\* @login_required, then the holdings are streamed and returned
get_transactions(s) ==
    /\ inflight[s].op = "get_transactions" /\ inflight[s].pc = "recv"
    /\ IF ~load_user(inflight[s].sess).is_authenticated THEN Unauthorized(s)
       ELSE Respond(s, 200, "")
    /\ UNCHANGED_users /\ UNCHANGED_holdings /\ UNCHANGED_presentations /\ UNCHANGED_agg

\* the stream raises inside the try of get_transactions: except Exception
get_transactions_raises(s) ==
    /\ inflight[s].op = "get_transactions" /\ inflight[s].pc = "recv"
    /\ load_user(inflight[s].sess).is_authenticated
    /\ Respond(s, 500, "Could not fetch portfolio")
    /\ UNCHANGED_users /\ UNCHANGED_holdings /\ UNCHANGED_presentations /\ UNCHANGED_agg

\* the query of the sell check, or the add, raises: neither is inside a try
add_transaction_raises(s) ==
    /\ inflight[s].op = "add_transaction"
    /\ \/ /\ inflight[s].pc = "recv"
          /\ load_user(inflight[s].sess).is_authenticated
          /\ ~real_needs_admin(load_user(inflight[s].sess), inflight[s].data)
          /\ inflight[s].data.transactionType = "sell"
       \/ inflight[s].pc = "add"
    /\ Escapes(s)
    /\ UNCHANGED_users /\ UNCHANGED_holdings /\ UNCHANGED_presentations /\ UNCHANGED_agg

\* transaction_ref.get() or transaction_ref.delete() raises: no try
delete_transaction_raises(s) ==
    /\ inflight[s].op = "delete_transaction"
    /\ inflight[s].pc \in {"recv", "delete"}
    /\ Escapes(s)
    /\ UNCHANGED_users /\ UNCHANGED_holdings /\ UNCHANGED_presentations /\ UNCHANGED_agg

\* presentation_ref.get() raises in vote_on_presentation: no try
vote_on_presentation_raises(s) ==
    /\ inflight[s].op = "vote_on_presentation" /\ inflight[s].pc = "recv"
    /\ load_user(inflight[s].sess).is_authenticated
    /\ ~is_guest(load_user(inflight[s].sess))
    /\ Escapes(s)
    /\ UNCHANGED_users /\ UNCHANGED_holdings /\ UNCHANGED_presentations /\ UNCHANGED_agg

\* a storage call of the request in slot s raises
storage_raises(s) ==
    \/ get_transactions_raises(s)
    \/ add_transaction_raises(s)
    \/ delete_transaction_raises(s)
    \/ vote_on_presentation_raises(s)

\* The holdings endpoints, GET /api/portfolio and the vote endpoint, served
\* by a single worker, with a store whose calls may fail
NextFail ==
    \E s \in {1} :
        \/ get_transactions_recv(s)
        \/ get_transactions(s)
        \/ add_transaction_recv(s)
        \/ add_transaction_check(s)
        \/ add_transaction_add(s)
        \/ delete_transaction_recv(s)
        \/ delete_transaction_check(s)
        \/ delete_transaction_delete(s)
        \/ vote_on_presentation_recv(s)
        \/ vote_on_presentation_check(s)
        \/ storage_raises(s)

SpecFail == InitRoles /\ [][NextFail]_vars

---------------------------------------------------------------------------
(* The role checks of the endpoints, one request issued by two callers *)

\* the endpoints that test current_user.role != 'admin' first
AdminEndpoints ==
    {"get_users", "update_user_role", "update_user_username", "set_user_password",
     "delete_user", "update_holding_section", "update_page_content"}

\* the endpoints that test current_user.role == 'guest' first
GuestEndpoints == {"add_presentation", "vote_on_presentation"}

\* the requests whose role check is looked at: the endpoint, and what the
\* check reads besides the caller's role
RoleCheckedRequests ==
    {[op |-> "add_transaction", pc |-> "recv", data |-> data] : data \in TxRequests}
    \cup {[op |-> "delete_transaction", pc |-> "recv",
           transaction_data |-> new_transaction_data(data)] : data \in TxRequests}
    \cup {[op |-> op, pc |-> "recv"] : op \in AdminEndpoints \cup GuestEndpoints}

\* the handler of the request answers 403 because of the caller's role
role_forbids(r, current_user) ==
    CASE r.op = "add_transaction" -> real_needs_admin(current_user, r.data)
      [] r.op = "delete_transaction" ->
             real_delete_needs_admin(current_user, r.transaction_data)
      [] r.op \in AdminEndpoints -> not_admin(current_user)
      [] r.op \in GuestEndpoints -> is_guest(current_user)

\* the role check of the request in slot s, made for the caller of that slot
check_role(s) ==
    /\ inflight[s].pc = "recv" /\ "caller" \in DOMAIN inflight[s]
    /\ LET forbidden == role_forbids(inflight[s], load_user({inflight[s].caller}))
       IN /\ inflight' = [inflight EXCEPT ![s].pc =
                              IF forbidden THEN "forbidden" ELSE "authorized"]
          /\ status' = <<IF forbidden THEN 403 ELSE 200, "">>
    /\ UNCHANGED_users /\ UNCHANGED_holdings /\ UNCHANGED_presentations /\ UNCHANGED_agg

\* One request, issued in slot 1 by a guest or a member and in slot 2 by an
\* admin, the store being the same
InitAuth ==
    /\ users = SeedRoles /\ nextUser = Cardinality(DOMAIN SeedRoles)
    /\ holdings = EmptyMap /\ nextTx = 0
    /\ presentations = EmptyMap /\ nextPres = 0
    /\ votes = EmptyMap /\ commits = EmptyMap
    /\ now = 0
    /\ status = <<0, "">>
    /\ \E r \in RoleCheckedRequests :
       \E lower \in {u \in DOMAIN SeedRoles : SeedRoles[u].role # "admin"} :
       \E admin \in {u \in DOMAIN SeedRoles : SeedRoles[u].role = "admin"} :
          inflight = [s \in Slots |->
                         IF s = 1 THEN r @@ [caller |-> lower]
                         ELSE IF s = 2 THEN r @@ [caller |-> admin]
                         ELSE Idle]
    /\ all_transactions = <<>> /\ aggregate = NotCalled

NextAuth == \E s \in {1, 2} : check_role(s)

SpecAuth == InitAuth /\ [][NextAuth]_vars

---------------------------------------------------------------------------
(* Portfolio aggregation: aggregate_portfolio(all_transactions) *)

\* Python's numbers, exactly: a rational is <<numerator, denominator>> in
\* lowest terms with a positive denominator
RECURSIVE Gcd(_, _)
Gcd(a, b) == IF b = 0 THEN a ELSE Gcd(b, a % b)

Abs(a) == IF a < 0 THEN -a ELSE a

RNorm(n, d) ==
    LET sn == IF d < 0 THEN -n ELSE n
        sd == Abs(d)
        g == Gcd(Abs(sn), sd)
    IN <<sn \div g, sd \div g>>

Num(a) == <<a, 1>>
RAdd(x, y) == RNorm(x[1] * y[2] + y[1] * x[2], x[2] * y[2])
RSub(x, y) == RNorm(x[1] * y[2] - y[1] * x[2], x[2] * y[2])
RMul(x, y) == RNorm(x[1] * y[1], x[2] * y[2])
RDiv(x, y) == RNorm(x[1] * y[2], x[2] * y[1])

\* the threshold 0.00001 of the returned positions, as 1 / EpsilonInverse
EpsilonInverse == 100000

AggSymbols == {"AAPL", "MSFT"}
AggDates == {1, 2}

\* a holdings document as get_portfolio hands it over
Transaction(symbol, isReal, transactionType, quantity, price, date) ==
    [symbol |-> symbol, longName |-> symbol, sector |-> "Technology",
     customSection |-> IF transactionType = "buy" THEN "Core" ELSE "Trim",
     isReal |-> isReal, transactionType |-> transactionType,
     quantity |-> quantity, dollarValue |-> quantity * price, date |-> date]

\* the transactions the argument lists are drawn from
AggTransactions ==
    {Transaction("AAPL", TRUE, "buy", l[1], l[2], d) :
        l \in {<<10, 10>>, <<20, 15>>, <<10, 20>>}, d \in AggDates}
    \cup {Transaction("AAPL", TRUE, "sell", 15, 14, d) : d \in AggDates}
    \cup {Transaction("MSFT", TRUE, t, 10, 10, 1) : t \in {"buy", "sell"}}
    \cup {Transaction("AAPL", FALSE, "buy", 10, 10, 1)}

RECURSIVE sorted(_)
\* sorted(all_transactions, key=date): stable
sorted(seq) ==
    IF seq = <<>> THEN <<>>
    ELSE LET tx == Head(seq)
             rest == sorted(Tail(seq))
         IN SelectSeq(rest, LAMBDA t : t.date < tx.date)
            \o <<tx>>
            \o SelectSeq(rest, LAMBDA t : t.date >= tx.date)

\* symbol in portfolio (the dict, as the sequence of its values in
\* insertion order)
InPortfolio(portfolio, symbol) ==
    \E k \in 1..Len(portfolio) : portfolio[k].symbol = symbol

IndexOf(portfolio, symbol) ==
    CHOOSE k \in 1..Len(portfolio) : portfolio[k].symbol = symbol

new_position(tx) ==
    [symbol |-> tx.symbol, longName |-> tx.longName, sector |-> tx.sector,
     customSection |-> tx.customSection, quantity |-> 0, totalCost |-> Num(0)]

cost_of_sold_floor_division(pos, quantity) ==
    RMul(Num(pos.totalCost[1] \div (pos.totalCost[2] * pos.quantity)), Num(quantity))

\* avg_cost * quantity, avg_cost = pos['totalCost'] / pos['quantity']
cost_of_sold(pos, quantity) ==
    RMul(RDiv(pos.totalCost, Num(pos.quantity)), Num(quantity))

\* the position after a buy or a sell
apply_transaction(pos, tx) ==
    IF tx.transactionType = "buy"
    THEN [pos EXCEPT !.quantity = @ + tx.quantity,
                     !.totalCost = RAdd(@, Num(tx.dollarValue))]
    ELSE IF pos.quantity > 0
         THEN [pos EXCEPT !.quantity = @ - tx.quantity,
                          !.totalCost = RSub(@, cost_of_sold(pos, tx.quantity))]
         ELSE pos

\* one iteration of the loop over sorted_transactions
loop_body(portfolio, tx) ==
    IF ~tx.isReal THEN portfolio
    ELSE IF ~InPortfolio(portfolio, tx.symbol) /\ tx.transactionType = "sell"
    THEN portfolio
    ELSE LET created == IF InPortfolio(portfolio, tx.symbol) THEN portfolio
                        ELSE Append(portfolio, new_position(tx))
             k == IndexOf(created, tx.symbol)
             pos == apply_transaction(created[k], tx)
         IN [created EXCEPT ![k] = [pos EXCEPT !.customSection = tx.customSection]]

\* the positions returned: quantity > 0.00001
open_positions(portfolio) ==
    SelectSeq(portfolio, LAMBDA p : p.quantity * EpsilonInverse > 1)

UNCHANGED_store ==
    /\ UNCHANGED_users /\ UNCHANGED_holdings /\ UNCHANGED_presentations
    /\ UNCHANGED <<inflight, status>>

\* the call starts: the argument is sorted, the portfolio is empty
aggregate_portfolio_sort ==
    /\ aggregate.pc = "called"
    /\ aggregate' = [pc |-> "loop", sorted_transactions |-> sorted(all_transactions),
                     i |-> 1, portfolio |-> <<>>]
    /\ UNCHANGED all_transactions /\ UNCHANGED_store

aggregate_portfolio_for ==
    /\ aggregate.pc = "loop"
    /\ aggregate.i <= Len(aggregate.sorted_transactions)
    /\ aggregate' = [aggregate EXCEPT
                        !.portfolio = loop_body(@, aggregate.sorted_transactions[aggregate.i]),
                        !.i = @ + 1]
    /\ UNCHANGED all_transactions /\ UNCHANGED_store

aggregate_portfolio_return ==
    /\ aggregate.pc = "loop"
    /\ aggregate.i > Len(aggregate.sorted_transactions)
    /\ aggregate' = [pc |-> "returned", portfolio |-> aggregate.portfolio,
                     returned |-> open_positions(aggregate.portfolio)]
    /\ UNCHANGED all_transactions /\ UNCHANGED_store

\* aggregate_portfolio called with any list of at most MaxLen transactions
InitAgg ==
    /\ users = SeedUsers /\ nextUser = 2
    /\ holdings = EmptyMap /\ nextTx = 0
    /\ presentations = EmptyMap /\ nextPres = 0
    /\ votes = EmptyMap /\ commits = EmptyMap
    /\ now = 0
    /\ inflight = [s \in Slots |-> Idle] /\ status = <<0, "">>
    /\ all_transactions \in UNION {[1..n -> AggTransactions] : n \in 0..MaxLen}
    /\ aggregate = [pc |-> "called"]

NextAgg ==
    \/ aggregate_portfolio_sort
    \/ aggregate_portfolio_for
    \/ aggregate_portfolio_return

SpecAgg == InitAgg /\ [][NextAgg]_vars

---------------------------------------------------------------------------
(* The homepage: GET /api/homepage-data *)

RECURSIVE aggregate_loop(_, _)
\* the loop of aggregate_portfolio over sorted_transactions
aggregate_loop(portfolio, txs) ==
    IF txs = <<>> THEN portfolio
    ELSE aggregate_loop(loop_body(portfolio, Head(txs)), Tail(txs))

aggregate_portfolio(transactions) ==
    open_positions(aggregate_loop(<<>>, sorted(transactions)))

RECURSIVE sorted_reverse(_)
\* sorted(items, key=date, reverse=True): stable
sorted_reverse(seq) ==
    IF seq = <<>> THEN <<>>
    ELSE LET x == Head(seq)
             rest == sorted_reverse(Tail(seq))
         IN SelectSeq(rest, LAMBDA t : t.date > x.date)
            \o <<x>>
            \o SelectSeq(rest, LAMBDA t : t.date <= x.date)

\* doc_to_dict_with_id of a holdings document of the store; the fields the
\* market-data lookup filled in when it was added are fixed
doc_to_dict_with_id(store, id) ==
    [id |-> id, symbol |-> store[id].symbol, longName |-> store[id].symbol,
     sector |-> "Other", customSection |-> "Other", isReal |-> store[id].isReal,
     transactionType |-> store[id].transactionType, quantity |-> store[id].quantity,
     dollarValue |-> store[id].dollarValue, date |-> store[id].date]

RECURSIVE stream(_, _)
\* db.collection('holdings').stream() on the store: the documents of the
\* ids in `ids`, in the order of their ids
stream(store, ids) ==
    IF ids = {} THEN <<>>
    ELSE LET id == CHOOSE i \in ids : \A j \in ids : i <= j
         IN <<doc_to_dict_with_id(store, id)>> \o stream(store, ids \ {id})

\* is_member = current_user.is_authenticated and current_user.role != 'guest'
is_member_any_login(current_user) == current_user.is_authenticated

is_member(current_user) ==
    current_user.is_authenticated /\ current_user.role # "guest"

\* the body get_homepage_data returns for current_user on the store
homepage_data(current_user, store) ==
    IF is_member(current_user)
    THEN LET all_tx == stream(store, DOMAIN store)
             real_positions == aggregate_portfolio(all_tx)
             real_position_symbols == {real_positions[k].symbol : k \in DOMAIN real_positions}
             watchlist_items ==
                 SelectSeq(all_tx, LAMBDA tx : ~tx.isReal
                                               /\ tx.symbol \notin real_position_symbols)
         IN [title |-> "Portfolio Snapshot",
             items |-> real_positions \o sorted_reverse(watchlist_items)]
    ELSE [title |-> "Club Watchlist",
          items |-> sorted_reverse(stream(store, {id \in DOMAIN store : ~store[id].isReal}))]

\* A request arrives: GET /api/homepage-data
get_homepage_data_recv(s) ==
    /\ \E sess \in Sessions : Receive(s, [op |-> "get_homepage_data", pc |-> "recv",
                                          sess |-> sess])
    /\ UNCHANGED_users /\ UNCHANGED_holdings /\ UNCHANGED_presentations /\ UNCHANGED_agg

\* the handler: no login is required; the body is returned with status 200
\* (the response carries it as a third component)
get_homepage_data(s) ==
    /\ inflight[s].op = "get_homepage_data" /\ inflight[s].pc = "recv"
    /\ inflight' = [inflight EXCEPT ![s] = Idle]
    /\ status' = <<200, "", homepage_data(load_user(inflight[s].sess), holdings)>>
    /\ UNCHANGED_users /\ UNCHANGED_holdings /\ UNCHANGED_presentations /\ UNCHANGED_agg

\* The holdings endpoints and the homepage, served by a single worker, for
\* callers of every role
NextHome ==
    \E s \in {1} :
        \/ add_transaction_recv(s)
        \/ add_transaction_check(s)
        \/ add_transaction_add(s)
        \/ delete_transaction_recv(s)
        \/ delete_transaction_check(s)
        \/ delete_transaction_delete(s)
        \/ get_homepage_data_recv(s)
        \/ get_homepage_data(s)

SpecHome == InitRoles /\ [][NextHome]_vars

\* The date is whatever the request carries: real buys of AAPL dated after
\* the other requests
LaterDates == {2}

PostdatedRequests ==
    {[symbol |-> "AAPL", isReal |-> TRUE, transactionType |-> "buy",
      quantity |-> q, dollarValue |-> q * (d + 2), date |-> d] :
        q \in Quantities, d \in LaterDates}

\* A request arrives: POST /api/transaction with a later date in its body
add_transaction_recv_postdated(s) ==
    /\ nextTx + Cardinality(InFlight("add_transaction")) < MaxTx
    /\ \E sess \in Sessions, data \in PostdatedRequests :
          Receive(s, [op |-> "add_transaction", pc |-> "recv", sess |-> sess,
                      data |-> data])
    /\ UNCHANGED_users /\ UNCHANGED_holdings /\ UNCHANGED_presentations /\ UNCHANGED_agg

\* add_transaction alone, its requests handled one after the other: the
\* holdings are the transactions it accepted one by one
NextLedger ==
    \E s \in 1..MaxSequential :
        \/ add_transaction_recv(s)
        \/ add_transaction_recv_postdated(s)
        \/ add_transaction_check(s)
        \/ add_transaction_add(s)

SpecLedger == InitRoles /\ [][NextLedger]_vars

---------------------------------------------------------------------------
(* Claims about the holdings *)

StoredSymbols == {holdings[t].symbol : t \in DOMAIN holdings}

RECURSIVE SignedQuantity(_, _)
\* Total of +quantity for the real buys and -quantity for the real sells of
\* sym among the documents ids
SignedQuantity(ids, sym) ==
    IF ids = {} THEN 0
    ELSE LET t == CHOOSE x \in ids : TRUE
             d == holdings[t]
             q == IF ~d.isReal \/ d.symbol # sym THEN 0
                  ELSE IF d.transactionType = "buy" THEN d.quantity
                  ELSE 0 - d.quantity
         IN q + SignedQuantity(ids \ {t}, sym)

NetRealQuantity(sym) == SignedQuantity(DOMAIN holdings, sym)

\* C1: in every reachable state of the holdings endpoints, for every symbol
\* the real sells stored do not exceed the real buys stored (the aggregated
\* quantity is never negative).
C1_SellsNeverExceedBuys ==
    \A sym \in StoredSymbols : NetRealQuantity(sym) >= 0

\* C2 as stated (for logged-in callers): whenever a sell request whose
\* quantity exceeds the current holdings of its symbol is answered, the
\* answer is 400 and nothing is stored.
C2_OversellAlways400 ==
    [][\A s \in Slots :
         LET r == inflight[s]
         IN (/\ r.op = "add_transaction"
             /\ r.pc = "recv"
             /\ load_user(r.sess).is_authenticated
             /\ r.data.transactionType = "sell"
             /\ r.data.quantity > NetRealQuantity(r.data.symbol)
             /\ inflight'[s] = Idle)
            => (status'[1] = 400 /\ holdings' = holdings)]_vars

\* C2 as amended: a sell request whose quantity exceeds the current holdings
\* of its symbol stores nothing and is refused: with 302 (the redirect to
\* the login page) when the caller is anonymous, with 403 when it is real
\* and the caller is no admin, and otherwise with 400.
C2_OversellRejected ==
    [][\A s \in Slots :
         LET r == inflight[s]
         IN (/\ r.op = "add_transaction" /\ r.pc = "recv"
             /\ r.data.transactionType = "sell"
             /\ r.data.quantity > NetRealQuantity(r.data.symbol)
             /\ inflight'[s] # r)
            => /\ holdings' = holdings /\ nextTx' = nextTx
               /\ inflight'[s] = Idle
               /\ LET u == load_user(r.sess)
                  IN status'[1] = IF ~u.is_authenticated THEN 302
                                  ELSE IF r.data.isReal /\ u.role # "admin" THEN 403
                                  ELSE 400]_vars

\* A sell was refused with 400 while real buys are stored
C2_Witness ==
    /\ status = <<400, "Cannot sell">>
    /\ \E t \in DOMAIN holdings :
          holdings[t].isReal /\ holdings[t].transactionType = "buy"

---------------------------------------------------------------------------
(* Claims about the votes *)

\* C3: under any interleaving of the vote requests of one user on one
\* presentation, at most one of them takes effect: the counters of a
\* presentation add up to no more than its vote records (one per user), and
\* the vote transactions committed for a (presentation, user) pair, each of
\* which adds one to a counter, number at most one.
C3_OneVotePerUserUnderConcurrency ==
    /\ \A p \in DOMAIN presentations :
         presentations[p].votes_for + presentations[p].votes_against
         <= Cardinality({u \in DOMAIN users : <<p, u>> \in DOMAIN votes})
    /\ \A k \in DOMAIN commits : commits[k] <= 1

\* The user of a vote request, and whether a slot holds a vote request of a
\* logged-in user that is about to be checked
VoteRequestOf(s, u, p) ==
    /\ inflight[s].op = "vote_on_presentation" /\ inflight[s].pc = "recv"
    /\ inflight[s].sess = {u} /\ u \in DOMAIN users
    /\ inflight[s].presentation_id = p

\* C4 as stated: once a vote record exists for (user, presentation), a vote
\* request of that user on that presentation is answered 409 and leaves the
\* vote records and the counters as they are.
C4_SecondVoteAlways409 ==
    [][\A s \in Slots : \A k \in DOMAIN votes :
         (VoteRequestOf(s, k[2], k[1]) /\ inflight'[s] # inflight[s])
         => (/\ inflight'[s] = Idle /\ status'[1] = 409
             /\ votes' = votes /\ presentations' = presentations)]_vars

\* C4 as amended: once a vote record exists for (user, presentation), a vote
\* request of that user on that presentation is refused and leaves the vote
\* records and the counters as they are; the answer is 409 while voting is
\* open and the user is no guest, and 403 otherwise.
C4_SecondVoteRefused ==
    [][\A s \in Slots : \A k \in DOMAIN votes :
         (VoteRequestOf(s, k[2], k[1]) /\ inflight'[s] # inflight[s])
         => (/\ inflight'[s] = Idle
             /\ status'[1] = IF \/ users[k[2]].role = "guest"
                                \/ now > presentations[k[1]].voting_ends_at
                             THEN 403 ELSE 409
             /\ votes' = votes /\ presentations' = presentations)]_vars

\* A second vote was answered 409: a vote is stored, voting is still open
C4_Witness ==
    /\ status = <<409, "You have already voted on this presentation.">>
    /\ \E k \in DOMAIN votes : now <= presentations[k[1]].voting_ends_at

\* C5: every presentation's voting deadline is its creation time + 48 hours
\* and never changes, and a vote request of a logged-in user (guest, member
\* or admin) on an existing presentation, handled after that deadline, is
\* answered 403 and changes neither the votes nor the counters.
C5_NoVoteAfterDeadline ==
    [][/\ \A p \in DOMAIN presentations' :
            /\ presentations'[p].voting_ends_at
                   = presentations'[p].created_at + VotingHours
            /\ p \in DOMAIN presentations =>
                  /\ presentations'[p].created_at = presentations[p].created_at
                  /\ presentations'[p].voting_ends_at = presentations[p].voting_ends_at
       /\ \A s \in Slots : \A u \in DOMAIN users : \A p \in DOMAIN presentations :
            (/\ VoteRequestOf(s, u, p)
             /\ now > presentations[p].created_at + VotingHours
             /\ inflight'[s] # inflight[s])
            => (/\ inflight'[s] = Idle /\ status'[1] = 403
                /\ votes' = votes /\ presentations' = presentations)]_vars

\* A vote was refused with 403 after the deadline of a presentation that
\* was voted on while it was open
C5_Witness ==
    /\ status = <<403, "Voting for this presentation has closed.">>
    /\ \E p \in DOMAIN presentations :
          /\ now > presentations[p].created_at + VotingHours
          /\ presentations[p].votes_for + presentations[p].votes_against > 0

---------------------------------------------------------------------------
(* Claims about the roles *)

\* A role-update request of user u, about to be checked in slot s
RoleRequestOf(s, u) ==
    /\ inflight[s].op = "update_user_role" /\ inflight[s].pc = "recv"
    /\ inflight[s].sess = {u} /\ u \in DOMAIN users

\* C6: a role-update request of a logged-in caller whose role is not admin
\* is answered 403 and leaves every user record (so every stored role) as it
\* is, whatever the target and the role asked for.
C6_NonAdminCannotChangeRoles ==
    [][\A s \in Slots : \A u \in DOMAIN users :
         (RoleRequestOf(s, u) /\ users[u].role # "admin" /\ inflight'[s] # inflight[s])
         => (inflight'[s] = Idle /\ status'[1] = 403 /\ users' = users)]_vars

\* A role update was refused with 403 while a member and a guest exist
C6_Witness ==
    /\ status = <<403, "Forbidden">>
    /\ \E u \in DOMAIN users : users[u].role # "admin"

\* C7: a role-update request of an admin whose target is the admin's own
\* account and whose role is not 'admin' is refused (400), and the caller's
\* stored role is still 'admin' afterwards.
C7_AdminCannotDemoteSelf ==
    [][\A s \in Slots : \A u \in DOMAIN users :
         (/\ RoleRequestOf(s, u) /\ users[u].role = "admin"
          /\ inflight[s].user_id = u /\ inflight[s].new_role # "admin"
          /\ inflight'[s] # inflight[s])
         => (/\ inflight'[s] = Idle /\ status'[1] = 400
             /\ users'[u].role = "admin" /\ users' = users)]_vars

\* A self-demotion was refused and an admin is stored
C7_Witness ==
    /\ status = <<400, "Admins cannot demote themselves.">>
    /\ \E u \in DOMAIN users : users[u].role = "admin"

---------------------------------------------------------------------------
(* Claims about the usernames *)

\* C8: in every state reachable by interleavings of register, admin
\* username-update and account-update requests, no two stored user records
\* have the same username.
C8_UsernamesUnique ==
    \A u \in DOMAIN users : \A v \in DOMAIN users :
        u # v => users[u].username # users[v].username

\* The request in slot s, about to be checked, would give user `target` (0:
\* a new user) the username `name`, and its caller may make such a request
GivesUsername(s, target, name) ==
    LET r == inflight[s]
        current_user == load_user(r.sess)
    IN /\ r.pc = "recv"
       /\ \/ /\ r.op = "register" /\ ~current_user.is_authenticated
             /\ target = 0 /\ name = r.username
          \/ /\ r.op = "update_user_username" /\ current_user.is_authenticated
             /\ current_user.role = "admin"
             /\ target = r.user_id /\ target \in DOMAIN users /\ name = r.username
          \/ /\ r.op = "update_account" /\ current_user.is_authenticated
             /\ target = current_user.id /\ name = r.username

\* C9: every request that would give a user a username already held by
\* another user (register, admin username-update, account-update) is
\* answered 409 and leaves all user records unchanged.
C9_DuplicateUsernameAnswered409 ==
    [][\A s \in Slots : \A target \in 0..MaxUsers : \A name \in Names :
         (/\ GivesUsername(s, target, name)
          /\ UsersNamed(name) \ {target} # {}
          /\ inflight'[s] # inflight[s])
         => (inflight'[s] = Idle /\ status'[1] = 409 /\ users' = users)]_vars

---------------------------------------------------------------------------
(* Claims about the aggregation *)

\* running quantity and running total cost of a symbol (nothing yet: 0)
RunningQuantity(portfolio, symbol) ==
    IF InPortfolio(portfolio, symbol)
    THEN portfolio[IndexOf(portfolio, symbol)].quantity ELSE 0

RunningCost(portfolio, symbol) ==
    IF InPortfolio(portfolio, symbol)
    THEN portfolio[IndexOf(portfolio, symbol)].totalCost ELSE <<0, 1>>

\* x = y - (y / Q) * q for rationals x, y and integers Q # 0, q, without
\* dividing: x * Q = y * (Q - q)
IsCostAfterSale(x, y, Q, q) == x[1] * Q * y[2] = y[1] * (Q - q) * x[2]

IsIteration == aggregate.pc = "loop" /\ aggregate'.pc = "loop"

\* the transactions are taken in date order, each exactly once
TakenInDateOrder(sorted_transactions) ==
    /\ Len(sorted_transactions) = Len(all_transactions)
    /\ \A t \in AggTransactions :
         Cardinality({k \in DOMAIN sorted_transactions : sorted_transactions[k] = t})
         = Cardinality({k \in DOMAIN all_transactions : all_transactions[k] = t})
    /\ \A j, k \in DOMAIN sorted_transactions :
         j < k => sorted_transactions[j].date <= sorted_transactions[k].date

\* what an iteration does to the symbols it is not about, and on a buy
IterationExceptSell(tx) ==
    LET p == aggregate.portfolio
        p2 == aggregate'.portfolio
    IN /\ \A sym \in AggSymbols \ {tx.symbol} :
            /\ RunningQuantity(p2, sym) = RunningQuantity(p, sym)
            /\ RunningCost(p2, sym) = RunningCost(p, sym)
       /\ ~tx.isReal =>
            /\ RunningQuantity(p2, tx.symbol) = RunningQuantity(p, tx.symbol)
            /\ RunningCost(p2, tx.symbol) = RunningCost(p, tx.symbol)
       /\ (tx.isReal /\ tx.transactionType = "buy") =>
            /\ RunningQuantity(p2, tx.symbol) = RunningQuantity(p, tx.symbol) + tx.quantity
            /\ RunningCost(p2, tx.symbol)[1] * RunningCost(p, tx.symbol)[2]
               = (RunningCost(p, tx.symbol)[1] + tx.dollarValue * RunningCost(p, tx.symbol)[2])
                 * RunningCost(p2, tx.symbol)[2]

\* the example: buys of 10, 20, 10 shares at 10, 15, 20 and a sell of 15
\* dated after them (handed over in another order)
ExampleTransactions ==
    <<Transaction("AAPL", TRUE, "sell", 15, 14, 2),
      Transaction("AAPL", TRUE, "buy", 10, 10, 1),
      Transaction("AAPL", TRUE, "buy", 20, 15, 1),
      Transaction("AAPL", TRUE, "buy", 10, 20, 1)>>

\* the call returns, for the example, one position of this quantity and cost
ExampleReturns(quantity, totalCost) ==
    (aggregate'.pc = "returned" /\ all_transactions = ExampleTransactions) =>
        /\ Len(aggregate'.returned) = 1
        /\ aggregate'.returned[1].quantity = quantity
        /\ aggregate'.returned[1].totalCost = totalCost

\* C10 as stated: aggregate_portfolio takes the real transactions in date
\* order; a buy adds its quantity and dollar value to the symbol's running
\* quantity and total cost; every sell (met with a running quantity other
\* than zero, so that the quotient exists) subtracts its quantity from the
\* running quantity and (running total cost / running quantity) x sold
\* quantity from the running total cost; the example leaves quantity 25 and
\* total cost 550 - 206.25 = 1375/4.
C10_EverySellSubtracts ==
    [][/\ aggregate'.pc = "loop" =>
            TakenInDateOrder(aggregate'.sorted_transactions)
       /\ IsIteration =>
            LET tx == aggregate.sorted_transactions[aggregate.i]
                Q == RunningQuantity(aggregate.portfolio, tx.symbol)
                Q2 == RunningQuantity(aggregate'.portfolio, tx.symbol)
            IN /\ IterationExceptSell(tx)
               /\ (tx.isReal /\ tx.transactionType = "sell" /\ Q # 0) =>
                    /\ Q2 = Q - tx.quantity
                    /\ IsCostAfterSale(RunningCost(aggregate'.portfolio, tx.symbol),
                                       RunningCost(aggregate.portfolio, tx.symbol),
                                       Q, tx.quantity)
       /\ ExampleReturns(25, <<1375, 4>>)]_vars

\* C10 as stated, the example alone: the example leaves quantity 25 and
\* total cost 550 - 206.25
C10_ExampleAsStated == [][ExampleReturns(25, <<1375, 4>>)]_vars

\* C10, amended: aggregate_portfolio takes the real transactions in date
\* order; a buy adds its quantity and dollar value to the symbol's running
\* quantity and total cost; a sell met while the running quantity is
\* positive subtracts its quantity from the running quantity and (running
\* total cost / running quantity) x sold quantity from the running total
\* cost; a sell met while the symbol has no position or a running quantity
\* of zero or less changes neither.  The positions returned are those whose
\* running quantity exceeds 0.00001, with these quantities and costs; the
\* example leaves quantity 25 and total cost 600 - 225 = 375.
C10_WeightedAverageCost ==
    [][/\ aggregate'.pc = "loop" =>
            TakenInDateOrder(aggregate'.sorted_transactions)
       /\ IsIteration =>
            LET tx == aggregate.sorted_transactions[aggregate.i]
                Q == RunningQuantity(aggregate.portfolio, tx.symbol)
                Q2 == RunningQuantity(aggregate'.portfolio, tx.symbol)
                C == RunningCost(aggregate.portfolio, tx.symbol)
                C2 == RunningCost(aggregate'.portfolio, tx.symbol)
            IN /\ IterationExceptSell(tx)
               /\ (tx.isReal /\ tx.transactionType = "sell" /\ Q > 0) =>
                    /\ Q2 = Q - tx.quantity
                    /\ IsCostAfterSale(C2, C, Q, tx.quantity)
               /\ (tx.isReal /\ tx.transactionType = "sell" /\ Q <= 0) =>
                    /\ Q2 = Q
                    /\ C2 = C
       /\ aggregate'.pc = "returned" =>
            LET p == aggregate.portfolio
                r == aggregate'.returned
            IN \A sym \in AggSymbols :
                 /\ InPortfolio(r, sym) <=> RunningQuantity(p, sym) >= 1
                 /\ InPortfolio(r, sym) =>
                      /\ RunningQuantity(r, sym) = RunningQuantity(p, sym)
                      /\ RunningCost(r, sym) = RunningCost(p, sym)
       /\ ExampleReturns(25, <<375, 1>>)]_vars

\* the example has been aggregated: three buys, then the sell at the
\* average cost 600 / 40 = 15
C10_Witness ==
    /\ aggregate.pc = "returned"
    /\ all_transactions = ExampleTransactions
    /\ Len(aggregate.returned) = 1
    /\ aggregate.returned[1].quantity = 25
    /\ aggregate.returned[1].totalCost = <<375, 1>>

---------------------------------------------------------------------------
(* Claims about the role checks *)

\* C11: for every endpoint and request, if the request is authorized when a
\* member or a guest issues it, the same request in the same state is
\* authorized when an admin issues it.
C11_RoleHierarchyMonotone ==
    inflight[1].pc = "authorized" => inflight[2].pc # "forbidden"

\* both callers were checked, the member was let through and so was the
\* admin
C11_Witness ==
    /\ inflight[1].pc = "authorized" /\ inflight[2].pc = "authorized"
    /\ inflight[1].op \in GuestEndpoints \cup {"delete_transaction"}
    /\ users[inflight[1].caller].role = "member"

---------------------------------------------------------------------------
(* Claims about failures *)

\* the error bodies the handlers build for a caught exception
GenericErrors ==
    {"Could not fetch portfolio", "An internal error occurred.",
     "An internal error occurred while trying to delete the user.",
     "Database error fetching presentations."}

\* C12: whenever a storage call raises while a request is handled, the
\* handler catches the exception and answers 500 with a JSON error body
\* carrying a generic message; no failure escapes the handler.
C12_EveryFailureCaught ==
    [][\A s \in Slots :
         storage_raises(s) => (status'[1] = 500 /\ status'[2] \in GenericErrors)]_vars

---------------------------------------------------------------------------
(* Claims about who changes the real transactions *)

\* the stored real transactions
RealTransactions == {id \in DOMAIN holdings : holdings[id].isReal}

\* The request in slot s, about to be checked, adds a real transaction or
\* deletes a stored real transaction
TouchesReal(s) ==
    /\ inflight[s].pc = "recv"
    /\ \/ inflight[s].op = "add_transaction" /\ inflight[s].data.isReal
       \/ /\ inflight[s].op = "delete_transaction"
          /\ inflight[s].transaction_id \in RealTransactions

IsAdmin(sess) ==
    load_user(sess).is_authenticated /\ load_user(sess).role = "admin"

\* C13 as stated: an add-transaction request with isReal true and a
\* delete-transaction request targeting a stored real transaction are
\* answered 403 whenever the caller is not an admin, and leave the holdings
\* unchanged.
C13_NonAdminAlways403 ==
    [][\A s \in Slots :
         (TouchesReal(s) /\ ~IsAdmin(inflight[s].sess) /\ inflight'[s] # inflight[s])
         => (inflight'[s] = Idle /\ status'[1] = 403 /\ holdings' = holdings)]_vars

\* C13, amended: these requests are rejected and leave the holdings
\* unchanged whenever the caller is not an admin, with 403 except for the
\* add-transaction request of a caller who is not logged in, which gets the
\* login redirect (302); a request goes on to its write on real
\* transactions only if an admin issued it, and the set of real
\* transactions changes only in the write of such a request.
C13_RealOnlyByAdmins ==
    [][/\ \A s \in Slots :
            (TouchesReal(s) /\ inflight'[s] # inflight[s]) =>
               IF IsAdmin(inflight[s].sess)
               THEN inflight'[s].pc \in {"add", "delete"} => holdings' = holdings
               ELSE /\ inflight'[s] = Idle
                    /\ holdings' = holdings
                    /\ status'[1] = IF /\ inflight[s].op = "add_transaction"
                                       /\ ~load_user(inflight[s].sess).is_authenticated
                                    THEN 302 ELSE 403
       /\ \A s \in Slots :
            (inflight[s].pc = "recv" /\ ~TouchesReal(s)) =>
               /\ inflight'[s].pc = "add" => ~inflight'[s].data.isReal
               /\ inflight'[s].pc = "delete" =>
                      inflight'[s].transaction_id \notin RealTransactions
       /\ {holdings'[id] : id \in {i \in DOMAIN holdings' : holdings'[i].isReal}}
            # {holdings[id] : id \in RealTransactions}
          => \E s \in Slots : inflight[s].pc \in {"add", "delete"}
                              /\ inflight'[s] = Idle]_vars

\* a member's request to delete a stored real transaction was refused
C13_Witness ==
    /\ status = <<403, "Forbidden: Only admins can delete real transactions.">>
    /\ RealTransactions # {}

---------------------------------------------------------------------------
(* Claims about the homepage *)

\* the store without its real transactions
WithoutReal(store) == [id \in {i \in DOMAIN store : ~store[i].isReal} |-> store[id]]

\* C14: the items /api/homepage-data returns to a caller who is neither
\* member nor admin are stored watchlist items, none a real transaction or a
\* position, and the body is the one the same caller gets from the store
\* with all real transactions removed: stores that differ only in their
\* real transactions give the same item list.
C14_GuestsSeeOnlyWatchlist ==
    [][\A s \in Slots :
         (/\ get_homepage_data(s)
          /\ load_user(inflight[s].sess).is_authenticated
                => load_user(inflight[s].sess).role = "guest")
         => LET items == status'[3].items
            IN /\ \A k \in DOMAIN items :
                    /\ "totalCost" \notin DOMAIN items[k]
                    /\ items[k].id \in DOMAIN holdings
                    /\ ~holdings[items[k].id].isReal
                    /\ ~items[k].isReal
               /\ \A id \in DOMAIN holdings :
                    ~holdings[id].isReal => \E k \in DOMAIN items : items[k].id = id
               /\ status'[3] = homepage_data(load_user(inflight[s].sess),
                                             WithoutReal(holdings))]_vars

\* a guest was served the homepage of a store that holds a real
\* transaction and a watchlist item
C14_Witness ==
    /\ status[1] = 200 /\ Len(status) = 3
    /\ status[3].title = "Club Watchlist"
    /\ Len(status[3].items) > 0
    /\ RealTransactions # {}

---------------------------------------------------------------------------
(* Claims about the list of presentations *)

\* C15: in the list GET /api/presentations returns, every presentation
\* whose voting deadline is still in the future has isVotingOpen true and,
\* when the caller is not an admin, neither votes_for nor votes_against.
C15_OpenVotesHidden ==
    [][\A s \in Slots :
         (get_presentations(s) /\ load_user(inflight[s].sess).is_authenticated)
         => LET list == status'[3]
            IN \A k \in DOMAIN list :
                 presentations[list[k].id].voting_ends_at > now
                 => /\ list[k].isVotingOpen
                    /\ load_user(inflight[s].sess).role # "admin"
                         => DOMAIN list[k] \cap {"votes_for", "votes_against"} = {}]_vars

---------------------------------------------------------------------------
(* Claims about the vote counters and the admins *)

VoteRecords(presentation_id, vote_type) ==
    {vt_ref \in DOMAIN votes : vt_ref[1] = presentation_id /\ votes[vt_ref] = vote_type}

\* C16: in every state reached by add-presentation, vote and delete-user
\* requests, votes_for of each presentation is the number of its stored
\* vote records 'for', and votes_against the number of those 'against'.
C16_CountersMatchVoteRecords ==
    \A p \in DOMAIN presentations :
        /\ presentations[p].votes_for = Cardinality(VoteRecords(p, "for"))
        /\ presentations[p].votes_against = Cardinality(VoteRecords(p, "against"))

Admins == {u \in DOMAIN users : users[u].role = "admin"}

\* C17: once there is an admin, there is one in every later state, however
\* role-update and delete-user requests interleave.
C17_AlwaysAnAdmin == [][Admins # {} => Admins' # {}]_vars

---------------------------------------------------------------------------
(* Claims about the aggregation and the sell check *)

\* the portfolio dictionary aggregate_portfolio builds from the holdings
PortfolioOfHoldings == aggregate_loop(<<>>, sorted(stream(holdings, DOMAIN holdings)))

ReportedOpen(symbol) == InPortfolio(open_positions(PortfolioOfHoldings), symbol)

\* C18: for the real transactions add_transaction accepted one by one, the
\* quantity aggregate_portfolio computes for a symbol is the symbol's total
\* buys minus total sells (the figure of the sell check), and the symbol is
\* reported open exactly when that figure exceeds 0.00001.
C18_CheckAndAggregationAgree ==
    \A symbol \in {upper(sym) : sym \in RequestSymbols} :
        /\ InPortfolio(PortfolioOfHoldings, symbol)
             => PortfolioOfHoldings[IndexOf(PortfolioOfHoldings, symbol)].quantity
                  = current_quantity(symbol)
        /\ ReportedOpen(symbol) <=> current_quantity(symbol) * EpsilonInverse > 1

\* the lists with the elements of seq in every order
Reorderings(seq) ==
    {[k \in DOMAIN seq |-> seq[f[k]]] :
        f \in {g \in [DOMAIN seq -> DOMAIN seq] :
                 \A i, j \in DOMAIN seq : g[i] = g[j] => i = j}}

\* quantity and total cost per symbol of a returned list of positions
PerSymbol(positions) ==
    {<<positions[k].symbol, positions[k].quantity, positions[k].totalCost>> :
        k \in DOMAIN positions}

\* C19: aggregate_portfolio returns the same quantity and total cost per
\* symbol for a list of transactions and for every permutation of it, also
\* when a buy and a sell of one symbol carry the same date.
C19_OrderIndependent ==
    aggregate.pc = "returned"
    => \A permuted \in Reorderings(all_transactions) :
          PerSymbol(aggregate_portfolio(permuted)) = PerSymbol(aggregate.returned)

====
